---- MODULE Spec2Model ----
(***************************************************************************)
(* Model of metropolis(func, steps) from Metropolis_Hastings.ipynb.        *)
(*                                                                         *)
(* Numbers.  Positions lie on a grid: an integer x stands for x grid steps  *)
(* from the grid's origin, a grid step being 0.3 for norm and 0.5 for the   *)
(* other densities (see UnitTenths); the origin is the position 0, except   *)
(* for beta, whose grid is laid through its mean 1/6.                       *)
(* A standard-normal draw z is counted in grid steps per 0.5,               *)
(* so that np.random.normal(0, 0.5) = 0.5 * z is SIGMA * z grid steps with  *)
(* SIGMA = 1.  Densities are non-negative integers (for norm, the standard  *)
(* normal density in units of 0.00001). np.random.random() is u / UDEN; the *)
(* draws enumerated are those of USet.                                      *)
(* new_prob / old_prob is a numpy float64 division: x/0 is +inf for x > 0  *)
(* and 0/0 is nan (a RuntimeWarning, not an exception); the quotient is    *)
(* kept as an exact fraction.                                              *)
(*                                                                         *)
(* The random source np.random is a seeded stream: the values it has       *)
(* produced since seeding are kept (normals, uniforms) together with the   *)
(* read positions (npos, upos); re-seeding rewinds the positions.          *)
(***************************************************************************)
EXTENDS Integers, Sequences, FiniteSets, TLC

\* ---- bounds of the model
MaxSteps == 2
MaxZ == 1
UDEN == 10
MaxCalls == 2
MaxStddev == 2

\* ---- program constants
\* np.random.normal(0, 0.5): the scale 0.5 is one position unit.
SIGMA == 1

VARIABLES func, steps, proposal_stddev, call, pc, samples, old_x, old_prob,
          i, new_x, new_prob, acceptance, u, normals, uniforms, npos, upos,
          result, exc, first, calls, nwrites, accepted

vars == <<func, steps, proposal_stddev, call, pc, samples, old_x, old_prob,
          i, new_x, new_prob, acceptance, u, normals, uniforms, npos, upos,
          result, exc, first, calls, nwrites, accepted>>

\* ---- the target distributions handed to metropolis as func
Funcs == {"bell", "skew", "gap", "norm", "beta"}

Abs(x) == IF x < 0 THEN -x ELSE x

\* func.mean()
FuncMean(f) == IF f = "skew" THEN 1 ELSE 0

\* func.pdf(x): finite, non-negative; zero outside the support.
\*   bell: symmetric, positive at its mean.
\*   skew: bounded support 0 .. 3 (like the notebook's Beta on [0,1]).
\*   gap : zero density at its mean, positive on both sides.
\*   beta: the notebook's stats.beta(0.4, 2) on the grid 1/6 + 0.5 * x, in
\*         units of 0.001: 1.367 at the mean 1/6 (x = 0), 0.238 at 2/3
\*         (x = 1), zero outside the support [0, 1].
\*   norm: stats.norm(), the standard normal density at 0.3 * x in units of
\*         0.00001 (0.39894 at 0, 0.38139 at 0.3, ...); the far tail is
\*         kept positive.
FuncPdf(f, x) ==
    CASE f = "bell" -> (IF Abs(x) = 0 THEN 4 ELSE IF Abs(x) = 1 THEN 2
                        ELSE IF Abs(x) = 2 THEN 1 ELSE 0)
      [] f = "skew" -> (IF x = 0 THEN 4 ELSE IF x = 1 THEN 2
                        ELSE IF x = 2 THEN 1 ELSE IF x = 3 THEN 1 ELSE 0)
      [] f = "beta" -> (IF x = 0 THEN 1367 ELSE IF x = 1 THEN 238 ELSE 0)
      [] f = "norm" -> (IF Abs(x) = 0 THEN 39894
                        ELSE IF Abs(x) = 1 THEN 38139
                        ELSE IF Abs(x) = 2 THEN 33322
                        ELSE IF Abs(x) = 3 THEN 26609
                        ELSE IF Abs(x) = 4 THEN 19419
                        ELSE IF Abs(x) = 5 THEN 12952
                        ELSE IF Abs(x) = 6 THEN 7895
                        ELSE IF Abs(x) = 7 THEN 4398 ELSE 1)
      [] OTHER      -> (IF Abs(x) = 1 THEN 2 ELSE IF Abs(x) = 2 THEN 1 ELSE 0)

ZSet == (-MaxZ) .. MaxZ
\* the uniform draws enumerated, out of 0 .. UDEN-1: the lowest draw 0, the
\* draw 0.1, the draw 0.5 (equal to the density ratio 2/4) and a high draw
USet == {0, 1, 5, 8} \cap (0 .. (UDEN - 1))

\* the grid step of func's positions, in tenths
UnitTenths(f) == IF f = "norm" THEN 3 ELSE 5

\* np.zeros(steps)
Zeros(n) == [k \in 1 .. n |-> 0]

\* variant: the quotient taken the wrong way round
Divide_inverted(n, d) ==
    IF n # 0 THEN [k |-> "fin", n |-> d, d |-> n]
    ELSE IF d > 0 THEN [k |-> "inf", n |-> d, d |-> n]
    ELSE [k |-> "nan", n |-> d, d |-> n]

\* new_prob / old_prob on numpy floats
Divide(n, d) ==
    IF d # 0 THEN [k |-> "fin", n |-> n, d |-> d]
    ELSE IF n > 0 THEN [k |-> "inf", n |-> n, d |-> d]
    ELSE [k |-> "nan", n |-> n, d |-> d]

\* variant: the comparison written with > instead of >=
Accepts_strict(acc, uu) ==
    CASE acc.k = "inf" -> TRUE
      [] acc.k = "nan" -> FALSE
      [] OTHER         -> acc.n * UDEN > uu * acc.d

\* acceptance >= np.random.random(), the draw being uu / UDEN
Accepts(acc, uu) ==
    CASE acc.k = "inf" -> TRUE
      [] acc.k = "nan" -> FALSE
      [] OTHER         -> acc.n * UDEN >= uu * acc.d

\* variant: the walk state kept across invocations instead of re-initialised
StartX_stale(f, stale) == stale

\* old_x = func.mean(): the start of every invocation
StartX(f, stale) == FuncMean(f)

NoResult == [ok |-> FALSE, val |-> << >>, acc |-> << >>]

Init ==
    /\ func \in Funcs
    /\ steps \in (-1) .. MaxSteps
    /\ proposal_stddev \in 0 .. MaxStddev
    /\ call = 1
    /\ pc = "alloc"
    /\ samples = << >>
    /\ old_x = 0 /\ old_prob = 0 /\ i = 0 /\ new_x = 0 /\ new_prob = 0
    /\ acceptance = Divide(0, 1)
    /\ u = 0
    /\ normals = << >> /\ uniforms = << >>
    /\ npos = 0 /\ upos = 0
    /\ result = NoResult
    /\ exc = "none"
    /\ first = NoResult
    /\ calls = << >>
    /\ nwrites = << >>
    /\ accepted = << >>

rngVars == <<normals, uniforms, npos, upos>>
cfgVars == <<func, steps, proposal_stddev, call, first>>

\* variant: a negative step count treated as an empty run
Alloc_lenient ==
    /\ pc = "alloc"
    /\ pc' = "mean" /\ exc' = exc
    /\ samples' = Zeros(steps)
    /\ nwrites' = Zeros(steps)
    /\ accepted' = << >>
    /\ UNCHANGED <<cfgVars, rngVars, old_x, old_prob, i, new_x, new_prob,
                   acceptance, u, result, calls>>

\* line 85: samples = np.zeros(steps); a negative dimension raises ValueError
Alloc ==
    /\ pc = "alloc"
    /\ IF steps < 0
       THEN /\ pc' = "raised" /\ exc' = "ValueError"
            /\ UNCHANGED <<samples, nwrites, accepted>>
       ELSE /\ pc' = "mean" /\ exc' = exc
            /\ samples' = Zeros(steps)
            /\ nwrites' = Zeros(steps)
            /\ accepted' = << >>
    /\ UNCHANGED <<cfgVars, rngVars, old_x, old_prob, i, new_x, new_prob,
                   acceptance, u, result, calls>>

\* line 86: old_x = func.mean()
Mean ==
    /\ pc = "mean"
    /\ old_x' = StartX(func, old_x)
    /\ calls' = Append(calls, "mean")
    /\ pc' = "pdf0"
    /\ UNCHANGED <<cfgVars, rngVars, samples, old_prob, i, new_x, new_prob,
                   acceptance, u, result, exc, nwrites, accepted>>

\* line 87: old_prob = func.pdf(old_x)
Pdf0 ==
    /\ pc = "pdf0"
    /\ old_prob' = FuncPdf(func, old_x)
    /\ calls' = Append(calls, "pdf")
    /\ i' = 0
    /\ pc' = "loop"
    /\ UNCHANGED <<cfgVars, rngVars, samples, old_x, new_x, new_prob,
                   acceptance, u, result, exc, nwrites, accepted>>

\* variant: the loop bound one short, range(steps - 1)
Loop_early ==
    /\ pc = "loop"
    /\ pc' = IF i < steps - 1 THEN "normal" ELSE "return"
    /\ UNCHANGED <<cfgVars, rngVars, samples, old_x, old_prob, i, new_x,
                   new_prob, acceptance, u, result, exc, calls, nwrites, accepted>>

\* line 89: for i in range(steps).  i is the position of the range iterator,
\* i.e. the number of iterations completed (created at 0 when line 89 is
\* first reached, here with the last statement before it).
Loop ==
    /\ pc = "loop"
    /\ pc' = IF i < steps THEN "normal" ELSE "return"
    /\ UNCHANGED <<cfgVars, rngVars, samples, old_x, old_prob, i, new_x,
                   new_prob, acceptance, u, result, exc, calls, nwrites, accepted>>

\* variant: the proposal scale taken from the caller's proposal_stddev
DrawNormal_cfg ==
    /\ pc = "normal"
    /\ \E z \in ZSet :
         /\ IF npos < Len(normals)
            THEN z = normals[npos + 1] /\ normals' = normals
            ELSE normals' = Append(normals, z)
         /\ new_x' = old_x + proposal_stddev * z
    /\ npos' = npos + 1
    /\ calls' = Append(calls, "normal")
    /\ pc' = "pdf"
    /\ UNCHANGED <<cfgVars, uniforms, upos, samples, old_x, old_prob, i,
                   new_prob, acceptance, u, result, exc, nwrites, accepted>>

\* line 90: new_x = old_x + np.random.normal(0, 0.5)
DrawNormal ==
    /\ pc = "normal"
    /\ \E z \in ZSet :
         /\ IF npos < Len(normals)
            THEN z = normals[npos + 1] /\ normals' = normals
            ELSE normals' = Append(normals, z)
         /\ new_x' = old_x + SIGMA * z
    /\ npos' = npos + 1
    /\ calls' = Append(calls, "normal")
    /\ pc' = "pdf"
    /\ UNCHANGED <<cfgVars, uniforms, upos, samples, old_x, old_prob, i,
                   new_prob, acceptance, u, result, exc, nwrites, accepted>>

\* line 91: new_prob = func.pdf(new_x)
Pdf ==
    /\ pc = "pdf"
    /\ new_prob' = FuncPdf(func, new_x)
    /\ calls' = Append(calls, "pdf")
    /\ pc' = "ratio"
    /\ UNCHANGED <<cfgVars, rngVars, samples, old_x, old_prob, i, new_x,
                   acceptance, u, result, exc, nwrites, accepted>>

\* variant: an uphill candidate accepted without the uniform draw
Ratio_shortcut ==
    /\ pc = "ratio"
    /\ acceptance' = Divide(new_prob, old_prob)
    /\ pc' = IF new_prob >= old_prob THEN "accept" ELSE "uniform"
    /\ UNCHANGED <<cfgVars, rngVars, samples, old_x, old_prob, i, new_x,
                   new_prob, u, result, exc, calls, nwrites, accepted>>

\* line 92: acceptance = new_prob / old_prob
Ratio ==
    /\ pc = "ratio"
    /\ acceptance' = Divide(new_prob, old_prob)
    /\ pc' = "uniform"
    /\ UNCHANGED <<cfgVars, rngVars, samples, old_x, old_prob, i, new_x,
                   new_prob, u, result, exc, calls, nwrites, accepted>>

\* line 93, right operand: np.random.random()
DrawUniform ==
    /\ pc = "uniform"
    /\ \E uu \in USet :
         /\ IF upos < Len(uniforms)
            THEN uu = uniforms[upos + 1] /\ uniforms' = uniforms
            ELSE uniforms' = Append(uniforms, uu)
         /\ u' = uu
    /\ upos' = upos + 1
    /\ calls' = Append(calls, "uniform")
    /\ pc' = "test"
    /\ UNCHANGED <<cfgVars, normals, npos, samples, old_x, old_prob, i,
                   new_x, new_prob, acceptance, result, exc, nwrites, accepted>>

\* line 93: if acceptance >= <draw>
Test ==
    /\ pc = "test"
    /\ pc' = IF Accepts(acceptance, u) THEN "accept" ELSE "reject"
    /\ UNCHANGED <<cfgVars, rngVars, samples, old_x, old_prob, i, new_x,
                   new_prob, acceptance, u, result, exc, calls, nwrites, accepted>>

\* variant: an off-by-one index, iteration ii writing the slot before its own
Slot_prev(ii) == IF ii = 0 THEN 1 ELSE ii

\* the slot of samples written by iteration ii (0-based ii, 1-based slot)
Slot(ii) == ii + 1

\* variant: the accepted branch records the density instead of the position
Accept_density ==
    /\ pc = "accept"
    /\ samples' = [samples EXCEPT ![Slot(i)] = new_prob]
    /\ nwrites' = [nwrites EXCEPT ![Slot(i)] = @ + 1]
    /\ accepted' = Append(accepted, TRUE)
    /\ old_x' = new_x
    /\ old_prob' = new_prob
    /\ i' = i + 1
    /\ pc' = "loop"
    /\ UNCHANGED <<cfgVars, rngVars, new_x, new_prob, acceptance, u, result,
                   exc, calls>>

\* variant: the accepted branch forgets to refresh the cached density
Accept_stalecache ==
    /\ pc = "accept"
    /\ samples' = [samples EXCEPT ![Slot(i)] = new_x]
    /\ nwrites' = [nwrites EXCEPT ![Slot(i)] = @ + 1]
    /\ accepted' = Append(accepted, TRUE)
    /\ old_x' = new_x
    /\ i' = i + 1
    /\ pc' = "loop"
    /\ UNCHANGED <<cfgVars, rngVars, old_prob, new_x, new_prob, acceptance, u,
                   result, exc, calls>>

\* lines 94-96: samples[i] = new_x; old_x = new_x; old_prob = new_prob
Accept ==
    /\ pc = "accept"
    /\ samples' = [samples EXCEPT ![Slot(i)] = new_x]
    /\ nwrites' = [nwrites EXCEPT ![Slot(i)] = @ + 1]
    /\ accepted' = Append(accepted, TRUE)
    /\ old_x' = new_x
    /\ old_prob' = new_prob
    /\ i' = i + 1
    /\ pc' = "loop"
    /\ UNCHANGED <<cfgVars, rngVars, new_x, new_prob, acceptance, u, result,
                   exc, calls>>

\* variant: the rejected branch records the candidate
Reject_candidate ==
    /\ pc = "reject"
    /\ samples' = [samples EXCEPT ![Slot(i)] = new_x]
    /\ nwrites' = [nwrites EXCEPT ![Slot(i)] = @ + 1]
    /\ accepted' = Append(accepted, FALSE)
    /\ i' = i + 1
    /\ pc' = "loop"
    /\ UNCHANGED <<cfgVars, rngVars, old_x, old_prob, new_x, new_prob,
                   acceptance, u, result, exc, calls>>

\* line 98: samples[i] = old_x
Reject ==
    /\ pc = "reject"
    /\ samples' = [samples EXCEPT ![Slot(i)] = old_x]
    /\ nwrites' = [nwrites EXCEPT ![Slot(i)] = @ + 1]
    /\ accepted' = Append(accepted, FALSE)
    /\ i' = i + 1
    /\ pc' = "loop"
    /\ UNCHANGED <<cfgVars, rngVars, old_x, old_prob, new_x, new_prob,
                   acceptance, u, result, exc, calls>>

\* line 99: return samples
Return ==
    /\ pc = "return"
    /\ result' = [ok |-> TRUE, val |-> samples, acc |-> accepted]
    /\ pc' = "done"
    /\ UNCHANGED <<cfgVars, rngVars, samples, old_x, old_prob, i, new_x,
                   new_prob, acceptance, u, exc, calls, nwrites, accepted>>

\* variant: a failing density evaluation swallowed, the array returned as is
RaisePdf_swallow ==
    /\ pc \in {"pdf0", "pdf"}
    /\ result' = [ok |-> TRUE, val |-> samples, acc |-> accepted]
    /\ pc' = "done"
    /\ UNCHANGED <<cfgVars, rngVars, samples, old_x, old_prob, i, new_x,
                   new_prob, acceptance, u, exc, calls, nwrites, accepted>>

\* func.pdf raises (lines 87, 91): nothing in metropolis catches it
RaisePdf ==
    /\ pc \in {"pdf0", "pdf"}
    /\ exc' = "PdfError"
    /\ pc' = "raised"
    /\ UNCHANGED <<cfgVars, rngVars, samples, old_x, old_prob, i, new_x,
                   new_prob, acceptance, u, result, calls, nwrites, accepted>>

\* np.random raises (lines 90, 93): nothing in metropolis catches it
RaiseRng ==
    /\ pc \in {"normal", "uniform"}
    /\ exc' = "RngError"
    /\ pc' = "raised"
    /\ UNCHANGED <<cfgVars, rngVars, samples, old_x, old_prob, i, new_x,
                   new_prob, acceptance, u, result, calls, nwrites, accepted>>

\* The caller re-seeds np.random and calls metropolis again with the same
\* func and steps.  A fresh frame's locals are unbound; the model keeps
\* their last values, which no action reads before lines 85-87 assign them.
Reinvoke ==
    /\ pc = "done"
    /\ call < MaxCalls
    /\ call' = call + 1
    /\ first' = IF call = 1 THEN result ELSE first
    /\ result' = NoResult
    /\ exc' = "none"
    /\ npos' = 0 /\ upos' = 0
    /\ calls' = << >>
    /\ pc' = "alloc"
    /\ UNCHANGED <<func, steps, proposal_stddev, normals, uniforms, samples,
                   old_x, old_prob, i, new_x, new_prob, acceptance, u,
                   nwrites, accepted>>

Next ==
    \/ Alloc \/ Mean \/ Pdf0 \/ Loop \/ DrawNormal \/ Pdf \/ Ratio
    \/ DrawUniform \/ Test \/ Accept \/ Reject \/ Return
    \/ RaisePdf \/ RaiseRng \/ Reinvoke

Spec == Init /\ [][Next]_vars

\* the statements of metropolis itself: a sequential program that has a next
\* statement executes it (func.pdf or np.random raising, and the caller
\* calling again, are not forced)
Run ==
    \/ Alloc \/ Mean \/ Pdf0 \/ Loop \/ DrawNormal \/ Pdf \/ Ratio
    \/ DrawUniform \/ Test \/ Accept \/ Reject \/ Return

FairSpec == Init /\ [][Next]_vars /\ WF_vars(Run)

TypeOK ==
    /\ func \in Funcs
    /\ steps \in (-1) .. MaxSteps
    /\ pc \in {"alloc", "mean", "pdf0", "loop", "normal", "pdf", "ratio",
               "uniform", "test", "accept", "reject", "return", "done",
               "raised"}
    /\ i \in 0 .. MaxSteps
    /\ u \in USet

\* ======================================================================
\* Properties
\* ======================================================================

\* positions of the loop body and of the loop head
InLoop == pc \in {"loop", "normal", "pdf", "ratio", "uniform", "test",
                  "accept", "reject", "return", "done"}

\* candidate_density / current_density >= uu / UDEN on floats: a positive
\* density over zero is +inf, which is >= every draw; 0/0 compares false.
QuotGE(n, d, uu) == IF d # 0 THEN n * UDEN >= uu * d ELSE n > 0

\* candidate_density / current_density < uu / UDEN on floats (false for
\* +inf and for nan)
QuotLT(n, d, uu) == d # 0 /\ n * UDEN < uu * d

C2_RejectionCorrect ==
    [][ /\ (pc = "test" /\ QuotLT(new_prob, old_prob, u)) => pc' = "reject"
        /\ pc = "reject" =>
             /\ samples'[i + 1] = old_x
             /\ UNCHANGED <<old_x, old_prob>>
             /\ i' = i + 1
             /\ pc' = "loop"
      ]_vars

\* C2 witness: a candidate different from the current position was rejected
\* and the recorded sample is the old position.
C2_Witness ==
    /\ pc = "loop" /\ i >= 1
    /\ accepted[i] = FALSE
    /\ QuotLT(new_prob, old_prob, u)
    /\ new_x # old_x
    /\ samples[i] = old_x

\* C3 -- Length invariant: the array holds exactly steps entries from its
\* allocation on, a run with steps >= 1 returns exactly steps values,
\* entry k has been written exactly once when iteration k is over and not
\* at all before, and an entry written is never rewritten during the run.
C3_LengthState ==
    /\ (pc \notin {"alloc", "raised"} \/ (pc = "raised" /\ steps >= 0)) =>
          /\ Len(samples) = steps
          /\ Len(nwrites) = steps
    /\ InLoop =>
          \A k \in 1 .. Len(nwrites) : nwrites[k] = IF k <= i THEN 1 ELSE 0
    /\ (pc = "done" /\ steps >= 1) =>
          /\ result.ok
          /\ Len(result.val) = steps
          /\ i = steps

C3_LengthInvariant ==
    /\ []C3_LengthState
    /\ [][ (InLoop /\ pc # "done") =>
             \A k \in 1 .. i : k <= Len(samples') /\ samples'[k] = samples[k]
         ]_vars

\* C3 witness: a run of the largest step count has returned.
C3_Witness ==
    /\ pc = "done" /\ steps >= 2
    /\ Len(result.val) = steps
    /\ \A k \in 1 .. steps : nwrites[k] = 1

\* C4 -- Every recorded entry is the position current before its iteration
\* or that position plus the iteration's offset: entry 0 is the initial
\* position or the initial position plus the first offset, entry k > 0 is
\* entry k-1 or entry k-1 plus the k-th offset, according to the branch
\* taken.
PriorPosition(k) == IF k = 1 THEN FuncMean(func) ELSE samples[k - 1]

C4_EntriesFromChain ==
    InLoop =>
      \A k \in 1 .. i :
         /\ k <= Len(samples) /\ k <= Len(normals) /\ k <= Len(accepted)
         /\ samples[k] = IF accepted[k]
                         THEN PriorPosition(k) + SIGMA * normals[k]
                         ELSE PriorPosition(k)

\* C4 witness: a returned sequence with a real accepted move followed by a
\* rejected one.
C4_Witness ==
    /\ pc = "done" /\ steps = 2
    /\ accepted = <<TRUE, FALSE>>
    /\ result.val[1] # FuncMean(func)
    /\ result.val[2] = result.val[1]
    /\ normals[2] # 0

\* C5 -- (as stated) Invalid configuration fails fast: with steps < 1 or
\* proposal_stddev <= 0 no random draw is consumed, no candidate density is
\* evaluated and no sample sequence is returned.
CandidateEvaluated == \E k \in 3 .. Len(calls) : calls[k] = "pdf"

C5_InvalidConfigFailsFast ==
    (steps < 1 \/ proposal_stddev <= 0) =>
        /\ pc # "done" /\ ~result.ok
        /\ npos = 0 /\ upos = 0
        /\ ~CandidateEvaluated

\* C5 -- (amended) A negative steps fails at the allocation with a
\* ValueError, before func is touched, before any draw, and nothing is
\* returned.  steps = 0 is not an error: the run evaluates func only at
\* the starting position, consumes no draw and returns the empty sequence.
\* proposal_stddev is not an input of metropolis and is never checked.
C5_NegativeStepsFail ==
    /\ steps < 0 =>
        /\ pc \in {"alloc", "raised"}
        /\ pc = "raised" => exc = "ValueError"
        /\ calls = << >> /\ npos = 0 /\ upos = 0
        /\ ~result.ok
    /\ steps = 0 =>
        /\ npos = 0 /\ upos = 0 /\ ~CandidateEvaluated
        /\ pc \notin {"normal", "pdf", "ratio", "uniform", "test", "accept",
                      "reject"}
        /\ pc = "done" => (result.ok /\ result.val = << >>)
    /\ (pc = "raised" /\ exc = "ValueError") => steps < 0

\* C5 witness: a negative step count has raised at the allocation.
C5_Witness ==
    /\ steps < 0 /\ pc = "raised" /\ exc = "ValueError"
    /\ calls = << >> /\ ~result.ok

\* C6 -- (as stated) If the density at the initial position is zero the
\* chain never moves: no candidate is accepted and every recorded entry is
\* the initial position.
C6_ZeroStartNeverMoves ==
    (FuncPdf(func, FuncMean(func)) = 0 /\ InLoop) =>
        /\ pc # "accept"
        /\ \A k \in 1 .. i : samples[k] = FuncMean(func)

\* C7 -- Determinism for a fixed random source: a second run with the same
\* func and steps, fed the same normal and uniform draws, takes the same
\* branch and records the same value at every index, and returns the same
\* sequence as the first.
C7_Determinism ==
    (call >= 2 /\ InLoop) =>
        /\ \A k \in 1 .. i :
              /\ samples[k] = first.val[k]
              /\ accepted[k] = first.acc[k]
        /\ pc = "done" => (result.val = first.val /\ result.acc = first.acc)

\* C7 witness: the second run has returned a sequence with a real accepted
\* move and a rejection, equal to the first run's.
C7_Witness ==
    /\ call = 2 /\ pc = "done" /\ steps = 2
    /\ result.val = first.val
    /\ TRUE \in {result.acc[k] : k \in 1 .. 2}
    /\ FALSE \in {result.acc[k] : k \in 1 .. 2}
    /\ \E k \in 1 .. 2 : result.acc[k] /\ normals[k] # 0

\* C8 -- Each iteration makes exactly two draws, the normal one first, then
\* the candidate's density evaluation, then the uniform one, whatever the
\* branch: after i iterations the calls made are mean, pdf, then i times
\* normal, pdf, uniform, with i normal and i uniform draws consumed; a
\* completed run of N steps has consumed exactly N of each.
ExpectedCall(k) ==
    IF k = 1 THEN "mean"
    ELSE IF k = 2 THEN "pdf"
    ELSE IF (k - 3) % 3 = 0 THEN "normal"
    ELSE IF (k - 3) % 3 = 1 THEN "pdf"
    ELSE "uniform"

C8_DrawOrder ==
    /\ \A k \in 1 .. Len(calls) : calls[k] = ExpectedCall(k)
    /\ pc = "loop" =>
         (Len(calls) = 2 + 3 * i /\ npos = i /\ upos = i
            /\ Len(accepted) = i)
    /\ pc \in {"test", "accept", "reject"} =>
         (Len(calls) = 2 + 3 * (i + 1) /\ npos = i + 1 /\ upos = i + 1)
    /\ pc = "done" =>
         (Len(calls) = 2 + 3 * steps /\ npos = steps /\ upos = steps)

\* C8 witness: a completed run of two steps, one accepted and one rejected,
\* after four draws.
C8_Witness ==
    /\ pc = "done" /\ steps = 2 /\ call = 1
    /\ accepted = <<TRUE, FALSE>>
    /\ Len(normals) = 2 /\ Len(uniforms) = 2
    /\ calls = <<"mean", "pdf", "normal", "pdf", "uniform",
                 "normal", "pdf", "uniform">>

\* C9 -- (as stated) The spread of the candidate moves is the caller's
\* proposal_stddev: the candidate is the current position plus
\* proposal_stddev times the standard-normal draw.
Proposed == pc \in {"pdf", "ratio", "uniform", "test"}

C9_CallerStddevScalesOffset ==
    Proposed => new_x = old_x + proposal_stddev * normals[npos]

\* C9 -- (amended) The spread of the candidate moves is the constant 0.5
\* written in metropolis, whatever proposal width the caller wants: the
\* candidate is the current position plus 0.5 times the standard-normal
\* draw, so the same draws give the same offsets for every configuration.
C9_FixedStddevScalesOffset ==
    Proposed => new_x = old_x + SIGMA * normals[npos]

\* C9 witness: a caller wanting a proposal width other than 0.5 gets a
\* non-zero offset of scale 0.5.
C9_Witness ==
    /\ pc = "pdf" /\ proposal_stddev # SIGMA
    /\ normals[npos] # 0
    /\ new_x - old_x = SIGMA * normals[npos]
    /\ new_x - old_x # proposal_stddev * normals[npos]

\* C10 -- The caller gets a complete sequence or a failure: a failure of
\* func.pdf or of the random source in any iteration ends the run with that
\* very error, nothing is retried or substituted, nothing runs afterwards,
\* and no sequence (in particular no partly filled one) is returned; a
\* returned sequence has all its steps entries written.
C10_State ==
    /\ pc = "raised" =>
         (~result.ok /\ exc \in {"ValueError", "PdfError", "RngError"})
    /\ result.ok =>
         /\ pc = "done" /\ exc = "none"
         /\ Len(result.val) = steps /\ i = steps
         /\ \A k \in 1 .. steps : nwrites[k] = 1

C10_CompleteOrFailure ==
    /\ []C10_State
    /\ [][ /\ pc # "raised"
           /\ pc \in {"pdf0", "pdf"} =>
                \/ pc' = "raised" /\ exc' = "PdfError" /\ ~result'.ok
                \/ pc' \in {"loop", "ratio"} /\ exc' = "none"
           /\ pc \in {"normal", "uniform"} =>
                \/ pc' = "raised" /\ exc' = "RngError" /\ ~result'.ok
                \/ pc' \in {"pdf", "test"} /\ exc' = "none"
         ]_vars

\* C10 witness: the density evaluation failed in the second iteration,
\* after one entry had been written, and nothing was returned.
C10_Witness ==
    /\ pc = "raised" /\ exc = "PdfError"
    /\ i = 1 /\ steps = 2 /\ nwrites = <<1, 0>>
    /\ ~result.ok

\* C11 -- Concrete scenario: standard-normal target, steps = 1, start at its
\* mean 0, the normal draw giving the offset +0.3 and the uniform draw 0.1.
\* The candidate is 0.3, its density rounds to 0.3814 and the current one to
\* 0.3989, the quotient is candidate over current and lies within 0.001 of
\* 0.9558, it is >= 0.1, the move is accepted and the run returns [0.3].
ScenarioOffset ==
    /\ func = "norm" /\ steps = 1 /\ FuncMean(func) = 0
    /\ npos = 1 /\ Len(normals) >= 1
    /\ SIGMA * normals[1] * UnitTenths(func) = 3

ScenarioDraws ==
    /\ ScenarioOffset
    /\ upos = 1 /\ Len(uniforms) >= 1
    /\ uniforms[1] * 10 = UDEN

C11_ConcreteScenario ==
    /\ (ScenarioOffset /\ pc \in {"pdf", "ratio", "uniform", "test"}) =>
          (old_x = 0 /\ new_x * UnitTenths(func) = 3)
    /\ (ScenarioOffset /\ pc \in {"ratio", "uniform", "test"}) =>
          /\ (new_prob + 5) \div 10 = 3814
          /\ (old_prob + 5) \div 10 = 3989
    /\ (ScenarioOffset /\ pc \in {"uniform", "test"}) =>
          /\ acceptance.k = "fin"
          /\ acceptance.n = new_prob /\ acceptance.d = old_prob
          /\ 10000 * acceptance.n > 9548 * acceptance.d
          /\ 10000 * acceptance.n < 9568 * acceptance.d
    /\ (ScenarioDraws /\ pc = "test") =>
          acceptance.n * 10 >= 1 * acceptance.d
    /\ ScenarioDraws => pc # "reject"
    /\ (ScenarioDraws /\ pc = "done") =>
          /\ result.ok /\ result.acc = <<TRUE>>
          /\ Len(result.val) = 1
          /\ result.val[1] * UnitTenths(func) = 3

\* C11 witness: the scenario has run to its end and returned [0.3].
C11_Witness ==
    /\ ScenarioDraws /\ pc = "done" /\ call = 1
    /\ result.val = <<1>> /\ result.val[1] * UnitTenths(func) = 3
    /\ u * 10 = UDEN

\* C12 -- (as stated) A candidate of zero density proposed from a position
\* of positive density has ratio zero and is rejected for every uniform
\* draw of [0, 1), the draw 0 included.
C12_ZeroCandidateRejected ==
    [][ (pc = "test" /\ new_prob = 0 /\ old_prob > 0) =>
           /\ acceptance.k = "fin" /\ acceptance.n = 0
           /\ pc' = "reject"
      ]_vars

\* C13 -- The run always terminates, and it ends normally only by exhausting
\* the step count: the loop body runs only while i < steps, the return is
\* reached only with i = steps after exactly steps decisions, one per
\* proposal, whatever the branches taken; the only other way out is an
\* exception.
C13_State ==
    /\ InLoop => (i <= steps /\ Len(accepted) = i)
    /\ pc \in {"normal", "pdf", "ratio", "uniform", "test", "accept",
               "reject"} => (i < steps /\ npos \in {i, i + 1})
    /\ pc \in {"accept", "reject"} => (npos = i + 1 /\ upos = i + 1)
    /\ pc \in {"return", "done"} =>
          (i = steps /\ npos = steps /\ Len(accepted) = steps)
    /\ pc = "raised" => exc # "none"

C13_Terminates ==
    /\ []C13_State
    /\ (pc = "alloc") ~> (pc \in {"done", "raised"})

\* C13 witness: a run whose proposals were all rejected still ran its full
\* step count and returned.
C13_Witness ==
    /\ pc = "done" /\ steps = 2 /\ i = 2
    /\ accepted = <<FALSE, FALSE>>
    /\ normals[1] # 0 /\ normals[2] # 0

\* C14 -- Cache coherence: from the loop head on, old_prob is func.pdf at
\* old_x; after an iteration its recorded sample is old_x; and func.pdf has
\* been evaluated once before the loop plus once per proposal made.
PdfCalls == Cardinality({k \in 1 .. Len(calls) : calls[k] = "pdf"})

C14_CacheCoherent ==
    /\ InLoop => old_prob = FuncPdf(func, old_x)
    /\ (pc \in {"loop", "return", "done"} /\ i >= 1) => samples[i] = old_x
    /\ pc \in {"loop", "normal", "pdf", "return", "done"} =>
          PdfCalls = 1 + i
    /\ pc \in {"ratio", "uniform", "test", "accept", "reject"} =>
          PdfCalls = 2 + i

\* C14 witness: after two accepted real moves the cached density is the
\* density of the new position, not of the start.
C14_Witness ==
    /\ pc = "loop" /\ i = 2 /\ accepted = <<TRUE, TRUE>>
    /\ normals[1] # 0 /\ normals[2] # 0
    /\ old_x # FuncMean(func)
    /\ old_prob = FuncPdf(func, old_x)
    /\ old_prob # FuncPdf(func, FuncMean(func))
    /\ PdfCalls = 3

\* C15 -- (as stated) With a positive density at the start and a finite,
\* non-negative density everywhere, current_density is positive at the start
\* of every iteration and at every division, the draw u = 0 included.
C15_DivisorPositive ==
    (FuncPdf(func, FuncMean(func)) > 0 /\ pc \in {"normal", "ratio"}) =>
        old_prob > 0
====
